---- MODULE Spec2Model ----
(***************************************************************************)
(* Model of LinkedIn_Jobs_Scraper.ipynb: scrape_jobs(driver), the part of  *)
(* __main__ that consumes its result, and export_to_csv.                   *)
(*                                                                         *)
(* The browser (Selenium driver) is the environment.  A session is a feed  *)
(* of feedPages result pages; the control for page k exists iff            *)
(* k <= feedPages.  Every driver call can also fail with a                 *)
(* WebDriverException (session unreachable).                               *)
(***************************************************************************)
EXTENDS Integers, Sequences, FiniteSets, TLC

\* ---- bounds of the environment ----
MaxFeedPages == 5      \* feeds of 1..MaxFeedPages pages
MaxNodes == 3          \* at most MaxNodes nodes of one class on a page

\* ---- program constants ----
RangeStart == 1        \* for i in range(1, 5)
RangeStop == 5
ScrollCount == 6       \* for i in range(6)
FirstPageNumber == 2   \* page_number = 2

MAX_PAGES == RangeStop - RangeStart

VARIABLES
    pc,                  \* position in __main__ / scrape_jobs
    sentinel,            \* environment: 'No matching jobs found.' node is present
    feedPages,           \* environment: number of result pages of the feed
    nLoc,                \* environment: caption nodes mounted per page
    nEmp,                \* environment: primary-description nodes mounted per page
    shownPage,           \* environment: result page the browser displays
    outerIt,             \* items consumed from the iterator of range(1, 5)
    innerIt,             \* items consumed from the iterator of range(6)
    i,                   \* the loop variable shared by both loops
    job_titles,          \* node list returned by find_elements (titles)
    titleIt,             \* items consumed by the first loop over job_titles
    linkIt,              \* items consumed by the second loop over job_titles
    job_titles_list,
    job_links_list,
    job_locations_list,
    company_names_list,
    page_number,
    exitPath,            \* how the outer loop was left
    exc,                 \* exception propagating out of the current frame
    information,         \* value bound to `information` in __main__
    csv,                 \* rows written by export_to_csv
    trace,               \* observed driver interactions of scrape_jobs
    pagesVisited,        \* completed scroll+extract passes
    batches              \* what the driver returned, pass by pass

vars == <<pc, sentinel, feedPages, nLoc, nEmp, shownPage, outerIt, innerIt, i,
          job_titles, titleIt, linkIt, job_titles_list, job_links_list,
          job_locations_list, company_names_list, page_number, exitPath, exc,
          information, csv, trace, pagesVisited, batches>>

env == <<sentinel, feedPages, nLoc, nEmp>>
lists == <<job_titles_list, job_links_list, job_locations_list, company_names_list>>
loopvars == <<outerIt, innerIt, i>>
titlevars == <<job_titles, titleIt, linkIt>>
mainvars == <<information, csv>>

\* ---- values ----
Unset == [kind |-> "unset", titles |-> <<>>, locations |-> <<>>,
          companies |-> <<>>, links |-> <<>>]
None == [kind |-> "None", titles |-> <<>>, locations |-> <<>>,
         companies |-> <<>>, links |-> <<>>]
Tuple4(t, l, c, k) == [kind |-> "tuple", titles |-> t, locations |-> l,
                       companies |-> c, links |-> k]

NoException == [type |-> "none", at |-> "none"]

\* lookups, clicks, notFound: page indices of the page-selector controls looked
\* up, clicked, and looked up without a match; linkMisses: link lookups that
\* matched no element.
NoTrace == [sentinelLookups |-> 0, scrolls |-> 0, queries |-> 0,
            footerLookups |-> 0, linkLookups |-> 0, linkMisses |-> 0,
            lookups |-> <<>>, clicks |-> <<>>, notFound |-> <<>>]

\* ---- the driver's view of a page ----
Node(kind, page, pos) == [kind |-> kind, page |-> page, pos |-> pos]
Nodes(kind, page, n) == [j \in 1..n |-> Node(kind, page, j)]
text(node) == <<node.kind, node.page, node.pos>>
href(node) == <<"href", node.page, node.pos>>

RECURSIVE Texts(_)
Texts(nodes) ==
    IF nodes = <<>> THEN <<>>
    ELSE <<text(Head(nodes))>> \o Texts(Tail(nodes))

RECURSIVE Hrefs(_)
Hrefs(nodes) ==
    IF nodes = <<>> THEN <<>>
    ELSE <<href(Head(nodes))>> \o Hrefs(Tail(nodes))

RECURSIVE Flatten(_)
Flatten(ss) ==
    IF ss = <<>> THEN <<>>
    ELSE Head(ss) \o Flatten(Tail(ss))

IsPrefix(s, t) == Len(s) <= Len(t) /\ SubSeq(t, 1, Len(s)) = s

Min(a, b) == IF a <= b THEN a ELSE b

\* ---- initial state: __main__ is about to call scrape_jobs(driver) ----
Init ==
    /\ pc = "start"
    /\ sentinel \in BOOLEAN
    /\ feedPages \in 1..MaxFeedPages
    /\ nLoc \in 0..MaxNodes
    /\ nEmp \in 0..MaxNodes
    /\ shownPage = 1
    /\ outerIt = 0
    /\ innerIt = 0
    /\ i = 0
    /\ job_titles = <<>>
    /\ titleIt = 0
    /\ linkIt = 0
    /\ job_titles_list = <<>>
    /\ job_links_list = <<>>
    /\ job_locations_list = <<>>
    /\ company_names_list = <<>>
    /\ page_number = 0
    /\ exitPath = "none"
    /\ exc = NoException
    /\ information = Unset
    /\ csv = <<>>
    /\ trace = NoTrace
    /\ pagesVisited = 0
    /\ batches = [titles |-> <<>>, locations |-> <<>>, companies |-> <<>>]

\* An exception leaves scrape_jobs: nothing is returned, __main__ stops.
Raise(e) ==
    /\ pc' = "raised"
    /\ exc' = [type |-> e, at |-> pc]


\* ---- scrape_jobs: try / except NoSuchElementException (lines 273-284) ----

SentinelFound_fallthrough ==
    /\ pc = "start"
    /\ sentinel
    /\ trace' = [trace EXCEPT !.sentinelLookups = @ + 1]
    /\ page_number' = FirstPageNumber
    /\ pc' = "for"
    /\ UNCHANGED <<env, shownPage, loopvars, titlevars, lists, exitPath, exc,
                   mainvars, pagesVisited, batches>>

\* The sentinel is found: the try body prints and the function falls off its
\* end, so the call evaluates to None and __main__ goes on to export_to_csv.
SentinelFound ==
    /\ pc = "start"
    /\ sentinel
    /\ trace' = [trace EXCEPT !.sentinelLookups = @ + 1]
    /\ information' = None
    /\ pc' = "export"
    /\ UNCHANGED <<env, shownPage, loopvars, titlevars, lists, page_number,
                   exitPath, exc, csv, pagesVisited, batches>>

SentinelAbsent_pageOne ==
    /\ pc = "start"
    /\ ~sentinel
    /\ trace' = [trace EXCEPT !.sentinelLookups = @ + 1]
    /\ job_titles_list' = <<>>
    /\ job_links_list' = <<>>
    /\ job_locations_list' = <<>>
    /\ company_names_list' = <<>>
    /\ page_number' = 1
    /\ pc' = "for"
    /\ UNCHANGED <<env, shownPage, loopvars, titlevars, exitPath, exc,
                   mainvars, pagesVisited, batches>>

\* The lookup raises NoSuchElementException: the handler binds the four lists
\* and page_number and enters the outer loop.
SentinelAbsent ==
    /\ pc = "start"
    /\ ~sentinel
    /\ trace' = [trace EXCEPT !.sentinelLookups = @ + 1]
    /\ job_titles_list' = <<>>
    /\ job_links_list' = <<>>
    /\ job_locations_list' = <<>>
    /\ company_names_list' = <<>>
    /\ page_number' = FirstPageNumber
    /\ pc' = "for"
    /\ UNCHANGED <<env, shownPage, loopvars, titlevars, exitPath, exc,
                   mainvars, pagesVisited, batches>>

\* The driver is unreachable at the sentinel lookup: not a
\* NoSuchElementException, so it is not caught.
SentinelLookupFails ==
    /\ pc = "start"
    /\ trace' = [trace EXCEPT !.sentinelLookups = @ + 1]
    /\ Raise("WebDriverException")
    /\ UNCHANGED <<env, shownPage, loopvars, titlevars, lists, page_number,
                   exitPath, mainvars, pagesVisited, batches>>

\* ---- for i in range(1, 5) (line 286) ----
\* The iterator of range(1, 5) keeps its own position; assigning to i in the
\* body does not move it.
OuterFor_whileTrue ==
    /\ pc = "for"
    /\ i' = RangeStart + outerIt
    /\ outerIt' = outerIt + 1
    /\ pc' = "footer"
    /\ UNCHANGED <<env, shownPage, innerIt, titlevars, lists, page_number,
                   exitPath, exc, mainvars, trace, pagesVisited, batches>>

OuterFor_offByOne ==
    /\ pc = "for"
    /\ IF outerIt <= RangeStop - RangeStart
       THEN /\ i' = RangeStart + outerIt
            /\ outerIt' = outerIt + 1
            /\ pc' = "footer"
            /\ UNCHANGED exitPath
       ELSE /\ exitPath' = "range_end"
            /\ pc' = "return"
            /\ UNCHANGED <<i, outerIt>>
    /\ UNCHANGED <<env, shownPage, innerIt, titlevars, lists, page_number, exc,
                   mainvars, trace, pagesVisited, batches>>

OuterFor ==
    /\ pc = "for"
    /\ IF outerIt < RangeStop - RangeStart
       THEN /\ i' = RangeStart + outerIt
            /\ outerIt' = outerIt + 1
            /\ pc' = "footer"
            /\ UNCHANGED exitPath
       ELSE /\ exitPath' = "range_end"
            /\ pc' = "return"
            /\ UNCHANGED <<i, outerIt>>
    /\ UNCHANGED <<env, shownPage, innerIt, titlevars, lists, page_number, exc,
                   mainvars, trace, pagesVisited, batches>>

\* ---- footer = driver.find_element(...) (lines 292-293) ----
\* The lookup stands inside the except handler, so no exception it raises is
\* caught, NoSuchElementException included.
FindFooter ==
    /\ pc = "footer"
    /\ trace' = [trace EXCEPT !.footerLookups = @ + 1]
    /\ \E outcome \in {"ok", "NoSuchElementException", "WebDriverException"} :
          IF outcome = "ok"
          THEN /\ innerIt' = 0
               /\ pc' = "scroll"
               /\ UNCHANGED exc
          ELSE /\ Raise(outcome)
               /\ UNCHANGED innerIt
    /\ UNCHANGED <<env, shownPage, outerIt, i, titlevars, lists, page_number,
                   exitPath, mainvars, pagesVisited, batches>>

\* ---- for i in range(6): scroll_from_origin(...).perform() (lines 294-296) ----
ScrollStep_untilOuter ==
    /\ pc = "scroll"
    /\ IF innerIt < ScrollCount - outerIt
       THEN /\ i' = innerIt
            /\ innerIt' = innerIt + 1
            /\ trace' = [trace EXCEPT !.scrolls = @ + 1]
            /\ \E ok \in BOOLEAN :
                  IF ok THEN UNCHANGED <<pc, exc>>
                        ELSE Raise("WebDriverException")
       ELSE /\ pc' = "titles"
            /\ UNCHANGED <<i, innerIt, trace, exc>>
    /\ UNCHANGED <<env, shownPage, outerIt, titlevars, lists, page_number,
                   exitPath, mainvars, pagesVisited, batches>>

ScrollStep ==
    /\ pc = "scroll"
    /\ IF innerIt < ScrollCount
       THEN /\ i' = innerIt
            /\ innerIt' = innerIt + 1
            /\ trace' = [trace EXCEPT !.scrolls = @ + 1]
            /\ \E ok \in BOOLEAN :
                  IF ok THEN UNCHANGED <<pc, exc>>
                        ELSE Raise("WebDriverException")
       ELSE /\ pc' = "titles"
            /\ UNCHANGED <<i, innerIt, trace, exc>>
    /\ UNCHANGED <<env, shownPage, outerIt, titlevars, lists, page_number,
                   exitPath, mainvars, pagesVisited, batches>>


FindTitles_emptyRaises ==
    /\ pc = "titles"
    /\ trace' = [trace EXCEPT !.queries = @ + 1]
    /\ \E n \in 0..MaxNodes :
          IF n > 0
          THEN /\ job_titles' = Nodes("title", shownPage, n)
               /\ batches' = [batches EXCEPT
                                !.titles = Append(@, Nodes("title", shownPage, n))]
               /\ titleIt' = 0
               /\ pc' = "title_loop"
               /\ UNCHANGED exc
          ELSE /\ Raise("NoSuchElementException")
               /\ UNCHANGED <<job_titles, titleIt, batches>>
    /\ UNCHANGED <<env, shownPage, loopvars, linkIt, lists, page_number,
                   exitPath, mainvars, pagesVisited>>

FindTitles_resetList ==
    /\ pc = "titles"
    /\ trace' = [trace EXCEPT !.queries = @ + 1]
    /\ \E n \in 0..MaxNodes :
          /\ job_titles' = Nodes("title", shownPage, n)
          /\ batches' = [batches EXCEPT
                           !.titles = Append(@, Nodes("title", shownPage, n))]
    /\ job_titles_list' = <<>>
    /\ titleIt' = 0
    /\ pc' = "title_loop"
    /\ UNCHANGED <<env, shownPage, loopvars, linkIt, job_links_list,
                   job_locations_list, company_names_list, page_number,
                   exitPath, exc, mainvars, pagesVisited>>

\* ---- job_titles = driver.find_elements(...) (line 298) ----
\* The driver returns the title nodes mounted on the page shown, in document
\* order; how many are mounted is up to the page.
FindTitles ==
    /\ pc = "titles"
    /\ trace' = [trace EXCEPT !.queries = @ + 1]
    /\ \E ok \in BOOLEAN :
          IF ok
          THEN \E n \in 0..MaxNodes :
                  /\ job_titles' = Nodes("title", shownPage, n)
                  /\ batches' = [batches EXCEPT
                                   !.titles = Append(@, Nodes("title", shownPage, n))]
                  /\ titleIt' = 0
                  /\ pc' = "title_loop"
                  /\ UNCHANGED exc
          ELSE /\ Raise("WebDriverException")
               /\ UNCHANGED <<job_titles, titleIt, batches>>
    /\ UNCHANGED <<env, shownPage, loopvars, linkIt, lists, page_number,
                   exitPath, mainvars, pagesVisited>>

AppendTitle_prepend ==
    /\ pc = "title_loop"
    /\ IF titleIt < Len(job_titles)
       THEN /\ titleIt' = titleIt + 1
            /\ job_titles_list' = <<text(job_titles[titleIt + 1])>> \o job_titles_list
            /\ UNCHANGED <<pc, linkIt>>
       ELSE /\ linkIt' = 0
            /\ pc' = "link_loop"
            /\ UNCHANGED <<titleIt, job_titles_list>>
    /\ UNCHANGED <<env, shownPage, loopvars, job_titles, job_links_list,
                   job_locations_list, company_names_list, page_number,
                   exitPath, exc, mainvars, trace, pagesVisited, batches>>

\* ---- for job_title in job_titles: job_titles_list.append(job_title.text)
\*      (lines 300-301) ----
AppendTitle ==
    /\ pc = "title_loop"
    /\ IF titleIt < Len(job_titles)
       THEN /\ titleIt' = titleIt + 1
            /\ \E ok \in BOOLEAN :
                  IF ok
                  THEN /\ job_titles_list' =
                             Append(job_titles_list, text(job_titles[titleIt + 1]))
                       /\ UNCHANGED <<pc, exc>>
                  ELSE /\ Raise("WebDriverException")
                       /\ UNCHANGED job_titles_list
            /\ UNCHANGED linkIt
       ELSE /\ linkIt' = 0
            /\ pc' = "link_loop"
            /\ UNCHANGED <<titleIt, job_titles_list, exc>>
    /\ UNCHANGED <<env, shownPage, loopvars, job_titles, job_links_list,
                   job_locations_list, company_names_list, page_number,
                   exitPath, mainvars, trace, pagesVisited, batches>>

AppendLink_skipMiss ==
    /\ pc = "link_loop"
    /\ IF linkIt < Len(job_titles)
       THEN /\ linkIt' = linkIt + 1
            /\ \E outcome \in {"ok", "NoSuchElementException", "WebDriverException"} :
                  /\ trace' = [trace EXCEPT
                                 !.linkLookups = @ + 1,
                                 !.linkMisses = IF outcome = "NoSuchElementException"
                                                THEN @ + 1 ELSE @]
                  /\ IF outcome = "ok"
                     THEN /\ job_links_list' =
                                Append(job_links_list, href(job_titles[linkIt + 1]))
                          /\ UNCHANGED <<pc, exc>>
                     ELSE IF outcome = "NoSuchElementException"
                     THEN UNCHANGED <<job_links_list, pc, exc>>
                     ELSE /\ Raise(outcome)
                          /\ UNCHANGED job_links_list
       ELSE /\ pc' = "locations"
            /\ UNCHANGED <<linkIt, job_links_list, exc, trace>>
    /\ UNCHANGED <<env, shownPage, loopvars, job_titles, titleIt,
                   job_titles_list, job_locations_list, company_names_list,
                   page_number, exitPath, mainvars, pagesVisited, batches>>

\* ---- for job_title in job_titles: job_links_list.append(
\*          job_title.find_element(By.LINK_TEXT, job_title.text)
\*                   .get_attribute("href"))  (lines 308-309) ----
\* The lookup is not inside a try: when no link matches, the
\* NoSuchElementException leaves scrape_jobs.
AppendLink ==
    /\ pc = "link_loop"
    /\ IF linkIt < Len(job_titles)
       THEN /\ linkIt' = linkIt + 1
            /\ \E outcome \in {"ok", "NoSuchElementException", "WebDriverException"} :
                  /\ trace' = [trace EXCEPT
                                 !.linkLookups = @ + 1,
                                 !.linkMisses = IF outcome = "NoSuchElementException"
                                                THEN @ + 1 ELSE @]
                  /\ IF outcome = "ok"
                     THEN /\ job_links_list' =
                                Append(job_links_list, href(job_titles[linkIt + 1]))
                          /\ UNCHANGED <<pc, exc>>
                     ELSE /\ Raise(outcome)
                          /\ UNCHANGED job_links_list
       ELSE /\ pc' = "locations"
            /\ UNCHANGED <<linkIt, job_links_list, exc, trace>>
    /\ UNCHANGED <<env, shownPage, loopvars, job_titles, titleIt,
                   job_titles_list, job_locations_list, company_names_list,
                   page_number, exitPath, mainvars, pagesVisited, batches>>

\* ---- job_locations = driver.find_elements(...); loop of appends
\*      (lines 311-314) ----
\* On a failure the first k texts (k < number of nodes, or 0 when the query
\* itself fails) were appended before the exception.
ExtractLocations ==
    /\ pc = "locations"
    /\ trace' = [trace EXCEPT !.queries = @ + 1]
    /\ \E ok \in BOOLEAN :
          IF ok
          THEN /\ job_locations_list' =
                     job_locations_list \o Texts(Nodes("location", shownPage, nLoc))
               /\ batches' = [batches EXCEPT
                                !.locations = Append(@, Nodes("location", shownPage, nLoc))]
               /\ pc' = "companies"
               /\ UNCHANGED exc
          ELSE \E k \in 0..nLoc :
                  /\ k < nLoc \/ k = 0
                  /\ job_locations_list' =
                        job_locations_list \o Texts(Nodes("location", shownPage, k))
                  /\ Raise("WebDriverException")
                  /\ UNCHANGED batches
    /\ UNCHANGED <<env, shownPage, loopvars, titlevars, job_titles_list,
                   job_links_list, company_names_list, page_number, exitPath,
                   mainvars, pagesVisited>>

\* ---- company_names = driver.find_elements(...); loop of appends
\*      (lines 316-319) ----
\* Its last append completes one scroll+extract pass.
ExtractCompanies ==
    /\ pc = "companies"
    /\ trace' = [trace EXCEPT !.queries = @ + 1]
    /\ \E ok \in BOOLEAN :
          IF ok
          THEN /\ company_names_list' =
                     company_names_list \o Texts(Nodes("company", shownPage, nEmp))
               /\ batches' = [batches EXCEPT
                                !.companies = Append(@, Nodes("company", shownPage, nEmp))]
               /\ pagesVisited' = pagesVisited + 1
               /\ pc' = "paginate"
               /\ UNCHANGED exc
          ELSE \E k \in 0..nEmp :
                  /\ k < nEmp \/ k = 0
                  /\ company_names_list' =
                        company_names_list \o Texts(Nodes("company", shownPage, k))
                  /\ Raise("WebDriverException")
                  /\ UNCHANGED <<batches, pagesVisited>>
    /\ UNCHANGED <<env, shownPage, loopvars, titlevars, job_titles_list,
                   job_links_list, job_locations_list, page_number, exitPath,
                   mainvars>>

Paginate_uncaught ==
    /\ pc = "paginate"
    /\ IF page_number <= feedPages
       THEN /\ trace' = [trace EXCEPT !.lookups = Append(@, page_number),
                                      !.clicks = Append(@, page_number)]
            /\ shownPage' = page_number
            /\ page_number' = page_number + 1
            /\ pc' = "for"
            /\ UNCHANGED exc
       ELSE /\ trace' = [trace EXCEPT !.lookups = Append(@, page_number),
                                      !.notFound = Append(@, page_number)]
            /\ Raise("NoSuchElementException")
            /\ UNCHANGED <<shownPage, page_number>>
    /\ UNCHANGED <<env, loopvars, titlevars, lists, exitPath, mainvars,
                   pagesVisited, batches>>

Paginate_continue ==
    /\ pc = "paginate"
    /\ IF page_number <= feedPages
       THEN /\ trace' = [trace EXCEPT !.lookups = Append(@, page_number),
                                      !.clicks = Append(@, page_number)]
            /\ shownPage' = page_number
            /\ page_number' = page_number + 1
       ELSE /\ trace' = [trace EXCEPT !.lookups = Append(@, page_number),
                                      !.notFound = Append(@, page_number)]
            /\ UNCHANGED <<shownPage, page_number>>
    /\ pc' = "for"
    /\ UNCHANGED <<env, loopvars, titlevars, lists, exitPath, exc, mainvars,
                   pagesVisited, batches>>

\* ---- try: page_button = ...; page_button.click(); page_number += 1
\*      except NoSuchElementException: break  (lines 321-327) ----
\* The try closes every iteration of the outer loop, the last one included.
Paginate ==
    /\ pc = "paginate"
    /\ \E ok \in BOOLEAN :
          IF ~ok
          THEN /\ trace' = [trace EXCEPT !.lookups = Append(@, page_number)]
               /\ Raise("WebDriverException")
               /\ UNCHANGED <<shownPage, page_number, exitPath>>
          ELSE IF page_number <= feedPages
          THEN /\ trace' = [trace EXCEPT !.lookups = Append(@, page_number),
                                         !.clicks = Append(@, page_number)]
               /\ shownPage' = page_number
               /\ page_number' = page_number + 1
               /\ pc' = "for"
               /\ UNCHANGED <<exitPath, exc>>
          ELSE /\ trace' = [trace EXCEPT !.lookups = Append(@, page_number),
                                         !.notFound = Append(@, page_number)]
               /\ exitPath' = "break"
               /\ pc' = "return"
               /\ UNCHANGED <<shownPage, page_number, exc>>
    /\ UNCHANGED <<env, loopvars, titlevars, lists, mainvars, pagesVisited,
                   batches>>

\* ---- return job_titles_list, job_locations_list, company_names_list,
\*      job_links_list (line 329); information = scrape_jobs(driver) ----
Return ==
    /\ pc = "return"
    /\ information' = Tuple4(job_titles_list, job_locations_list,
                             company_names_list, job_links_list)
    /\ pc' = "export"
    /\ UNCHANGED <<env, shownPage, loopvars, titlevars, lists, page_number,
                   exitPath, exc, csv, trace, pagesVisited, batches>>

\* ---- export_to_csv(job_search_domain, *information) (lines 348-357, 422) ----
\* Unpacking None raises TypeError; pd.DataFrame of a dict of lists of
\* different lengths raises ValueError; otherwise row k of the frame holds the
\* k-th entry of each list.
DataFrame(t, l, c, k) ==
    [r \in 1..Len(t) |-> [title |-> t[r], location |-> l[r],
                          company |-> c[r], link |-> k[r]]]

ExportToCsv ==
    /\ pc = "export"
    /\ IF information.kind = "None"
       THEN /\ exc' = [type |-> "TypeError", at |-> pc]
            /\ pc' = "crashed"
            /\ UNCHANGED csv
       ELSE IF /\ Len(information.titles) = Len(information.locations)
               /\ Len(information.titles) = Len(information.companies)
               /\ Len(information.titles) = Len(information.links)
       THEN /\ csv' = DataFrame(information.titles, information.locations,
                                information.companies, information.links)
            /\ pc' = "close"
            /\ UNCHANGED exc
       ELSE /\ exc' = [type |-> "ValueError", at |-> pc]
            /\ pc' = "crashed"
            /\ UNCHANGED csv
    /\ UNCHANGED <<env, shownPage, loopvars, titlevars, lists, page_number,
                   exitPath, information, trace, pagesVisited, batches>>

\* ---- close_browser(driver) (lines 375-377, 423) ----
CloseBrowser ==
    /\ pc = "close"
    /\ pc' = "end"
    /\ UNCHANGED <<env, shownPage, loopvars, titlevars, lists, page_number,
                   exitPath, exc, mainvars, trace, pagesVisited, batches>>

Next ==
    \/ SentinelFound
    \/ SentinelAbsent
    \/ SentinelLookupFails
    \/ OuterFor
    \/ FindFooter
    \/ ScrollStep
    \/ FindTitles
    \/ AppendTitle
    \/ AppendLink
    \/ ExtractLocations
    \/ ExtractCompanies
    \/ Paginate
    \/ Return
    \/ ExportToCsv
    \/ CloseBrowser

Spec == Init /\ [][Next]_vars

\* The notebook runs one thread, each statement follows the previous one and
\* every driver call returns or raises: a step that is possible is taken.
FairSpec == Spec /\ WF_vars(Next)

\* ---- derived session state ----
terminal == pc \in {"export", "close", "end", "crashed", "raised"}

terminalReason ==
    IF pc = "raised" THEN "READ_FAILURE"
    ELSE IF information.kind = "None" THEN "NO_RESULTS"
    ELSE IF exitPath = "break" THEN "EXHAUSTED"
    ELSE IF exitPath = "range_end" THEN "CAP_REACHED"
    ELSE "none"

TypeOK ==
    /\ pc \in {"start", "for", "footer", "scroll", "titles", "title_loop",
               "link_loop", "locations", "companies", "paginate", "return",
               "export", "close", "end", "crashed", "raised"}
    /\ outerIt \in 0..MAX_PAGES
    /\ innerIt \in 0..ScrollCount
    /\ pagesVisited \in Nat
    /\ page_number \in Nat


\* ==== claims ====

EmptyRecords == Tuple4(<<>>, <<>>, <<>>, <<>>)
sentinelFound == sentinel /\ pc \notin {"start", "raised"}

\* C1: whenever the lookup of the 'no matching jobs' sentinel succeeded, the
\* session is in the NO_RESULTS outcome and the value scrape_jobs handed to
\* __main__ is the tuple of four empty lists, not None.
C1_NoResultsYieldsEmptyRecords ==
    sentinelFound =>
        /\ terminalReason = "NO_RESULTS"
        /\ information = EmptyRecords
        /\ exc.type # "TypeError"

\* C2: the number of completed scroll+extract passes never exceeds MAX_PAGES,
\* and the outer loop is left through the end of range(1, 5) only after
\* exactly MAX_PAGES passes, although the inner loop has overwritten i.
C2_PagesVisitedCapped ==
    /\ pagesVisited <= MAX_PAGES
    /\ outerIt <= MAX_PAGES
    /\ exitPath = "range_end" => pagesVisited = MAX_PAGES

C2_Witness ==
    /\ exitPath = "range_end"
    /\ pagesVisited = MAX_PAGES
    /\ i = ScrollCount - 1


\* C3: on a feed of more than MAX_PAGES pages the page-selector control is
\* looked up at most MAX_PAGES - 1 times, the control for page MAX_PAGES + 1
\* is never looked up or clicked, and the session returns after exactly
\* MAX_PAGES passes with CAP_REACHED.
C3_NoFifthPageAttempt ==
    feedPages >= MAX_PAGES + 1 =>
        /\ Len(trace.lookups) <= MAX_PAGES - 1
        /\ \A k \in 1..Len(trace.lookups) : trace.lookups[k] <= MAX_PAGES
        /\ \A k \in 1..Len(trace.clicks) : trace.clicks[k] <= MAX_PAGES
        /\ information.kind = "tuple" =>
              pagesVisited = MAX_PAGES /\ terminalReason = "CAP_REACHED"

\* C4: once a link lookup has matched no element, scrape_jobs has not raised
\* the NoSuchElementException and every title visited by the link loop has an
\* entry in job_links_list.
C4_LinkMissTolerated ==
    trace.linkMisses > 0 =>
        /\ ~(pc = "raised" /\ exc.type = "NoSuchElementException")
        /\ Len(job_links_list) = Len(job_titles_list) - Len(job_titles) + linkIt

\* C5: when the driver failed during the scroll or extract step of a pass,
\* the failure did not leave scrape_jobs as an exception: the session is in
\* the READ_FAILURE outcome with a result bound in __main__ that holds every
\* record of the completed passes.
readFailure ==
    /\ exc.type = "WebDriverException"
    /\ exc.at \in {"footer", "scroll", "titles", "title_loop", "link_loop",
                   "locations", "companies"}

C5_ReadFailureKeepsRecords ==
    readFailure =>
        /\ pc # "raised"
        /\ information.kind = "tuple"
        /\ IsPrefix(Texts(Flatten(SubSeq(batches.titles, 1, pagesVisited))),
                    information.titles)

\* C6: once a lookup of the page-selector control has matched nothing, no
\* driver interaction, no change of page_number, of the lists or of the pass
\* count happens any more, the loop is not re-entered, and the value bound in
\* __main__ is the tuple of the lists accumulated so far.
exhausted == trace.notFound # <<>>

C6_ExhaustedStopsLoop ==
    /\ [][exhausted => UNCHANGED <<trace, page_number, shownPage, lists,
                                   pagesVisited, outerIt>>]_vars
    /\ [](exhausted => pc \in {"return", "export", "close", "end", "crashed"})
    /\ [](exhausted /\ pc # "return" =>
             information = Tuple4(job_titles_list, job_locations_list,
                                  company_names_list, job_links_list))

C6_Witness ==
    /\ exhausted
    /\ pc = "export"
    /\ pagesVisited = 2
    /\ information.titles # <<>>

\* C7: in a session whose sentinel is present the driver sees no scroll
\* gesture, no extraction query, no footer or link lookup and no pagination
\* lookup or click; the sentinel lookup is its only interaction.
C7_NoResultsTouchesNothing ==
    sentinel =>
        /\ trace.scrolls = 0
        /\ trace.queries = 0
        /\ trace.footerLookups = 0
        /\ trace.linkLookups = 0
        /\ trace.lookups = <<>>
        /\ trace.clicks = <<>>
        /\ trace.sentinelLookups <= 1
        /\ pagesVisited = 0

C7_Witness ==
    /\ sentinelFound
    /\ trace.sentinelLookups = 1
    /\ pc = "crashed"

\* C8: every step leaves each of the four accumulated lists a prefix of its
\* next value: entries are only appended, never removed or overwritten.
C8_AppendOnly ==
    [][ /\ IsPrefix(job_titles_list, job_titles_list')
        /\ IsPrefix(job_links_list, job_links_list')
        /\ IsPrefix(job_locations_list, job_locations_list')
        /\ IsPrefix(company_names_list, company_names_list') ]_vars

C8_Witness ==
    /\ pc = "paginate"
    /\ pagesVisited = 2
    /\ batches.titles[1] # <<>>
    /\ Len(job_titles_list) > Len(batches.titles[1])
    /\ Len(job_locations_list) > Len(batches.locations[1])

\* C9: the returned lists are the concatenation, in visiting order, of what
\* the driver returned on each pass: entries of an earlier page come first,
\* and entries of one page keep the order of the title node list.
PageOrdered(s) ==
    \A a, b \in 1..Len(s) :
        a < b => \/ s[a][2] < s[b][2]
                 \/ s[a][2] = s[b][2] /\ s[a][3] < s[b][3]

C9_ConcatenationOrder ==
    information.kind = "tuple" =>
        /\ information.titles = Texts(Flatten(batches.titles))
        /\ information.links = Hrefs(Flatten(batches.titles))
        /\ information.locations = Texts(Flatten(batches.locations))
        /\ information.companies = Texts(Flatten(batches.companies))
        /\ PageOrdered(information.titles)
        /\ PageOrdered(information.links)
        /\ PageOrdered(information.locations)
        /\ PageOrdered(information.companies)

C9_Witness ==
    /\ information.kind = "tuple"
    /\ pagesVisited >= 2
    /\ Len(batches.titles[1]) >= 2
    /\ Len(batches.titles[2]) >= 1

\* C10: when the returned lists differ in length, export_to_csv does not fail
\* and writes one row per position up to the length of the shortest list.
mismatched ==
    /\ information.kind = "tuple"
    /\ \/ Len(information.titles) # Len(information.locations)
       \/ Len(information.titles) # Len(information.companies)
       \/ Len(information.titles) # Len(information.links)

C10_MismatchedListsExport ==
    mismatched /\ pc \in {"close", "end", "crashed"} =>
        /\ pc # "crashed"
        /\ exc.type = "none"
        /\ Len(csv) = Min(Min(Len(information.titles), Len(information.links)),
                          Min(Len(information.locations), Len(information.companies)))


\* C11: on a feed of exactly one page with no sentinel, at most one
\* scroll+extract pass and one pagination lookup happen and nothing is
\* clicked; when scrape_jobs returns, exactly one pass has completed, the one
\* lookup was for page 2 and matched nothing, the session is EXHAUSTED, and a
\* page of 3 listings gives 3 titles, 3 links, 3 locations and 3 employers.
C11_OnePageThreeListings ==
    ~sentinel /\ feedPages = 1 =>
        /\ pagesVisited <= 1
        /\ trace.scrolls <= ScrollCount
        /\ Len(trace.lookups) <= 1
        /\ trace.clicks = <<>>
        /\ information.kind = "tuple" =>
              /\ pagesVisited = 1
              /\ trace.scrolls = ScrollCount
              /\ trace.lookups = <<FirstPageNumber>>
              /\ trace.notFound = <<FirstPageNumber>>
              /\ terminalReason = "EXHAUSTED"
              /\ Len(batches.titles[1]) = 3 =>
                    Len(information.titles) = 3 /\ Len(information.links) = 3
              /\ nLoc = 3 => Len(information.locations) = 3
              /\ nEmp = 3 => Len(information.companies) = 3

C11_Witness ==
    /\ ~sentinel
    /\ feedPages = 1
    /\ pc = "end"
    /\ terminalReason = "EXHAUSTED"
    /\ Len(information.titles) = 3
    /\ Len(csv) = 3


\* C12: every run of the scroll loop issues exactly ScrollCount gestures,
\* whatever the page holds and however many runs came before, and one run
\* precedes each extraction pass: while scrape_jobs has not raised, the
\* gestures issued are ScrollCount per pass begun (less the ones still to come
\* in a running scroll loop), and ScrollCount times the completed passes once
\* a pass is complete.
C12_SixGesturesPerPass ==
    pc # "raised" =>
        /\ pc = "footer" => trace.scrolls = ScrollCount * (outerIt - 1)
        /\ pc = "scroll" => trace.scrolls = ScrollCount * (outerIt - 1) + innerIt
        /\ pc \in {"titles", "title_loop", "link_loop", "locations", "companies"} =>
              /\ trace.scrolls = ScrollCount * outerIt
              /\ pagesVisited = outerIt - 1
        /\ pc \in {"paginate", "for", "return", "export", "close", "end", "crashed"} =>
              trace.scrolls = ScrollCount * pagesVisited
        /\ trace.footerLookups \in {pagesVisited, pagesVisited + 1}

C12_Witness ==
    /\ pc = "export"
    /\ pagesVisited = 3
    /\ trace.scrolls = 3 * ScrollCount
    /\ Len(batches.titles[1]) # Len(batches.titles[2])


\* C13: no NoSuchElementException raised by the sentinel lookup or by the
\* lookup of the page-selector control leaves scrape_jobs: a sentinel lookup
\* without a match has started the scan (lists and page_number bound), and a
\* control lookup without a match has left the loop through break.
C13_NotFoundIsABranch ==
    /\ exc.type = "NoSuchElementException" => exc.at \notin {"start", "paginate"}
    /\ ~sentinel /\ pc # "start" /\ exc.at # "start" =>
          page_number >= FirstPageNumber
    /\ exhausted => exitPath = "break" /\ pc # "raised" /\ exc.type # "NoSuchElementException"

C13_Witness ==
    /\ ~sentinel
    /\ trace.sentinelLookups = 1
    /\ exhausted
    /\ pagesVisited = 3
    /\ pc = "end"
    /\ exc = NoException


\* C14: page_number is bound to FirstPageNumber when the scan starts and
\* changes afterwards only by +1 in the pagination step that found and
\* clicked the control for its old value; at every pagination attempt it is
\* pagesVisited + 1, so the controls looked up are those of pages 2, 3, ...
\* in order, none skipped and none twice.
C14_PageIndexStepsByOne ==
    /\ [][page_number' # page_number =>
             \/ pc = "start" /\ page_number' = FirstPageNumber
             \/ /\ pc = "paginate"
                /\ page_number' = page_number + 1
                /\ trace'.clicks = Append(trace.clicks, page_number)
                /\ trace'.lookups = Append(trace.lookups, page_number)]_vars
    /\ [](pc = "for" /\ outerIt = 0 => page_number = FirstPageNumber)
    /\ [](pc = "paginate" => page_number = pagesVisited + 1)
    /\ [](\A k \in 1..Len(trace.lookups) : trace.lookups[k] = k + 1)
    /\ [](trace.notFound # <<>> =>
             trace.notFound = <<trace.lookups[Len(trace.lookups)]>>)

C14_Witness ==
    /\ pc = "paginate"
    /\ pagesVisited = 3
    /\ page_number = 4
    /\ trace.lookups = <<2, 3>>
    /\ trace.clicks = <<2, 3>>


\* C15: once the session is terminal (the sentinel was found, a control
\* lookup matched nothing, MAX_PAGES passes are complete, or a driver failure
\* was raised), no step interacts with the driver or changes the accumulated
\* lists, pagesVisited or page_number.
sessionTerminal ==
    \/ terminalReason # "none"
    \/ pagesVisited = MAX_PAGES

C15_TerminalIsImmutable ==
    [][sessionTerminal =>
          UNCHANGED <<trace, lists, pagesVisited, page_number, shownPage>>]_vars


\* C16: every session reaches a state in which scrape_jobs has returned or
\* raised, whatever the feed and the sentinel, and until then the number of
\* driver interactions stays within fixed limits given by MAX_PAGES.
C16_Terminates ==
    /\ <>terminal
    /\ [](/\ trace.sentinelLookups <= 1
          /\ trace.footerLookups <= MAX_PAGES
          /\ trace.scrolls <= ScrollCount * MAX_PAGES
          /\ trace.queries <= 3 * MAX_PAGES
          /\ trace.linkLookups <= MaxNodes * MAX_PAGES
          /\ Len(trace.lookups) <= MAX_PAGES)

C16_Witness ==
    /\ feedPages > MAX_PAGES
    /\ terminal
    /\ exitPath = "range_end"
    /\ Len(trace.clicks) = MAX_PAGES
    /\ trace.scrolls = ScrollCount * MAX_PAGES


\* C17: a query that matches no node raises nothing and yields an empty
\* batch; a page counts as a pass whatever it held, and its pagination step
\* runs; a session without sentinel whose pages held no node at all returns
\* four empty lists with a reason other than NO_RESULTS.
noListings ==
    /\ Flatten(batches.titles) = <<>>
    /\ Flatten(batches.locations) = <<>>
    /\ Flatten(batches.companies) = <<>>

C17_EmptyPageIsNoError ==
    /\ exc.at \in {"titles", "locations", "companies"} =>
          exc.type = "WebDriverException"
    /\ pagesVisited = Len(batches.companies)
    /\ pc \in {"locations", "companies"} /\ job_titles = <<>> =>
          Len(batches.titles) = pagesVisited + 1
    /\ pc \in {"for", "return"} => Len(trace.lookups) = pagesVisited
    /\ information.kind = "tuple" /\ noListings =>
          /\ information = EmptyRecords
          /\ terminalReason \in {"EXHAUSTED", "CAP_REACHED"}
          /\ pagesVisited >= 1
          /\ Len(trace.lookups) = pagesVisited

C17_Witness ==
    /\ ~sentinel
    /\ information = EmptyRecords
    /\ noListings
    /\ pagesVisited = 2
    /\ Len(trace.lookups) = 2
    /\ pc = "end"
    /\ csv = <<>>


\* C18: in every returned tuple the titles and the links have the same
\* length and the k-th link was read from the node (page, position) the k-th
\* title was read from.  The locations and employers are not tied to that
\* length: C18_Witness is a returned tuple with fewer locations and more
\* employers than titles.
C18_TitlesAndLinksPaired ==
    information.kind = "tuple" =>
        /\ Len(information.titles) = Len(information.links)
        /\ \A k \in 1..Len(information.titles) :
              /\ information.titles[k][1] = "title"
              /\ information.links[k][1] = "href"
              /\ information.links[k][2] = information.titles[k][2]
              /\ information.links[k][3] = information.titles[k][3]

C18_Witness ==
    /\ information.kind = "tuple"
    /\ Len(information.titles) = 3
    /\ Len(information.links) = 3
    /\ pagesVisited = 2
    /\ Len(information.locations) < Len(information.titles)
    /\ Len(information.companies) > Len(information.titles)

====
